---------------------------- MODULE Spec2Model ----------------------------
(***************************************************************************)
(* Chaum-Pedersen client/server authentication.                            *)
(*                                                                         *)
(* Two state machines share this module:                                   *)
(*   SpecEngine - one protocol round of the ChaumPedersen engine           *)
(*                (chaum-pedersen/src/chaum_pedersen.rs), the way its unit *)
(*                tests and the client drive it;                           *)
(*   Spec       - the gRPC handlers of PedersenChaumAuthServer             *)
(*                (server/src/server.rs) running as concurrent tasks over  *)
(*                the RwLock-guarded PedersenChaumAuthServerState          *)
(*                (server/src/state.rs).                                   *)
(*                                                                         *)
(* The group is scaled down so that TLC can enumerate it.  DEFAULT_PARAMS  *)
(* is a safe-prime group p = 2q + 1 with g = 4 and h = 9 (two squares, so  *)
(* both have order q); the model keeps g and h and takes the safe prime    *)
(* p = 23, q = 11.  bit_size is scaled so that 2^bit_size exceeds p (and   *)
(* so 2q), as 2^256 does for the 255-bit default modulus.                  *)
(***************************************************************************)
EXTENDS Integers, Sequences, FiniteSets, TLC

(***************************************************************************)
(* Parameters (chaum-pedersen/src/lib.rs)                                  *)
(***************************************************************************)
bit_size == 5

p == 23

q == 11

g == 4

h == 9

\* Bounds of the model.
MaxScalar == 12      \* secrets x and ephemerals k range over 0..MaxScalar
MaxResponse == 23    \* responses s submitted to verify range over 0..MaxResponse

RECURSIVE Pow2(_)
Pow2(n) == IF n = 0 THEN 1 ELSE 2 * Pow2(n - 1)

\* rng.gen_biguint(bit_size): every integer of at most bit_size bits.
RandomValues == 0 .. (Pow2(bit_size) - 1)

Scalars == 0 .. MaxScalar

Responses == 0 .. MaxResponse

(***************************************************************************)
(* BigInt arithmetic as num_bigint computes it                             *)
(***************************************************************************)
\* BigInt::modpow(exponent, modulus) for a non-negative exponent.
RECURSIVE ModPow(_, _, _)
ModPow(b, e, m) ==
    IF e = 0 THEN 1 % m
    ELSE LET half == ModPow(b, e \div 2, m)
         IN  IF e % 2 = 0 THEN (half * half) % m
                          ELSE (((half * half) % m) * (b % m)) % m

\* BigInt `%`: the remainder of truncated division (sign of the dividend).
Rem(a, m) == IF a >= 0 THEN a % m ELSE -((-a) % m)

(***************************************************************************)
(* ChaumPedersen engine (chaum-pedersen/src/chaum_pedersen.rs)             *)
(***************************************************************************)
VerifyErr == "Failed to verify challenge, invalid authentication attempt"

commit(k) == [r1 |-> ModPow(g, k, p), r2 |-> ModPow(h, k, p)]

\* Mutation: a negative remainder is negated instead of raised by q.
solve_challenge_abs(x, k, c) ==
    LET s == Rem(k - (c * x), q)
    IN  IF s < 0 THEN -s ELSE s

\* Mutation: the response reduced modulo the modulus p instead of the order q.
solve_challenge_mod_p(x, k, c) ==
    LET s == Rem(k - (c * x), p)
    IN  IF s < 0 THEN s + p ELSE s

solve_challenge(x, k, c) ==
    LET s == Rem(k - (c * x), q)
    IN  IF s < 0 THEN s + q ELSE s

\* Mutation: `&&` for `||`, an attempt is rejected only when both checks fail.
verify_and(y1, y2, r1, r2, s, c) ==
    LET true_r1 == Rem(ModPow(g, s, p) * ModPow(y1, c, p), p)
        true_r2 == Rem(ModPow(h, s, p) * ModPow(y2, c, p), p)
    IN  IF (r1 # true_r1) /\ (r2 # true_r2) THEN VerifyErr ELSE "Ok"

\* Mutation: the comparison inverted.
verify_inverted(y1, y2, r1, r2, s, c) ==
    LET true_r1 == Rem(ModPow(g, s, p) * ModPow(y1, c, p), p)
        true_r2 == Rem(ModPow(h, s, p) * ModPow(y2, c, p), p)
    IN  IF (r1 = true_r1) \/ (r2 = true_r2) THEN VerifyErr ELSE "Ok"

\* Mutation: the challenge exponent dropped from the recomputation.
verify_no_challenge(y1, y2, r1, r2, s, c) ==
    LET true_r1 == Rem(ModPow(g, s, p) * (y1 % p), p)
        true_r2 == Rem(ModPow(h, s, p) * (y2 % p), p)
    IN  IF (r1 # true_r1) \/ (r2 # true_r2) THEN VerifyErr ELSE "Ok"

verify(y1, y2, r1, r2, s, c) ==
    LET true_r1 == Rem(ModPow(g, s, p) * ModPow(y1, c, p), p)
        true_r2 == Rem(ModPow(h, s, p) * ModPow(y2, c, p), p)
    IN  IF (r1 # true_r1) \/ (r2 # true_r2) THEN VerifyErr ELSE "Ok"

VARIABLES
    round,      \* engine: the prover's round (stage, x, k, y1, y2, r1, r2, c, s)
    trial,      \* engine: the verify call made on the round and its outcome
    state,      \* server: PedersenChaumAuthServerState (users, challenges, sessions)
    lock,       \* server: the RwLock around state (writer task or 0, reader tasks)
    task,       \* server: per task, the handler it runs (pc, req, loc, resp)
    next_uuid,  \* server: Uuid::new_v4() as a counter, every id is fresh
    used,       \* history: challenge ids a VerifyAnswer has returned a session for
    wire,       \* wire: one big integer on its way between client and server
    call        \* state: the latest direct call of a state.rs operation

engine_vars == <<round, trial>>

server_vars == <<state, lock, task, next_uuid, used>>

vars == <<round, trial, state, lock, task, next_uuid, used, wire, call>>

\* The engine before a round is run.
NoRound ==
    [stage |-> "start", x |-> 0, k |-> 0, y1 |-> 0, y2 |-> 0,
     r1 |-> 0, r2 |-> 0, c |-> 0, s |-> 0]

NoTrial ==
    [kind |-> "none", y1 |-> 0, y2 |-> 0, r1 |-> 0, r2 |-> 0,
     s |-> 0, c |-> 0, x2 |-> 0, outcome |-> "none"]

\* No state.rs operation called yet.
NoCall == [op |-> "none", user_name |-> "", id |-> 0, result |-> [kind |-> "none"]]

\* Nothing on the wire.
NoWire == [stage |-> "start", field |-> "", v |-> 0, bytes |-> << >>, decoded |-> 0]

(***************************************************************************)
(* Wire encoding (BigInt::to_bytes_be().1 / BigInt::from_bytes_be(Plus, _))*)
(***************************************************************************)
\* magnitude as big-endian bytes, no leading zero byte; zero is the byte 0
RECURSIVE to_bytes_be(_)
to_bytes_be(v) ==
    IF v < 256 THEN <<v>> ELSE Append(to_bytes_be(v \div 256), v % 256)

\* Mutation: the bytes are read least significant first.
RECURSIVE from_bytes_le(_)
from_bytes_le(bytes) ==
    IF Len(bytes) = 0 THEN 0
    ELSE bytes[1] + 256 * from_bytes_le(SubSeq(bytes, 2, Len(bytes)))

RECURSIVE from_bytes_be(_)
from_bytes_be(bytes) ==
    IF Len(bytes) = 0 THEN 0
    ELSE 256 * from_bytes_be(SubSeq(bytes, 1, Len(bytes) - 1)) + bytes[Len(bytes)]

(***************************************************************************)
(* Server state (server/src/types.rs, server/src/state.rs)                 *)
(***************************************************************************)
\* Option<String>
None == << >>

Some(v) == <<v>>

\* HashMap::insert / HashMap::remove
Insert(map, key, value) ==
    [k \in DOMAIN map \cup {key} |-> IF k = key THEN value ELSE map[k]]

Remove(map, key) == [k \in DOMAIN map \ {key} |-> map[k]]

EmptyMap == [k \in {} |-> 0]

\* PedersenChaumAuthServerState::new
NewState == [users |-> EmptyMap, challenges |-> EmptyMap, sessions |-> EmptyMap]

\* Result<(), Status>: Ok(()) or a tonic::Status
Ok == [kind |-> "Ok"]

MsgNoChallenge ==
    "Failed to retrieve user challenge data, user must submit an authentication request"

MsgNoUser == "Failed to retrieve user data, user must register first"

Status_aborted(message) ==
    [kind |-> "Status", code |-> "Aborted", message |-> message]

Status_unauthenticated(message) ==
    [kind |-> "Status", code |-> "Unauthenticated", message |-> message]

\* The error kinds of the service, told apart by what the Status says.
IsUserNotFound(resp) == resp.kind = "Status" /\ resp.message = MsgNoUser

IsChallengeNotFound(resp) == resp.kind = "Status" /\ resp.message = MsgNoChallenge

IsVerificationFailed(resp) == resp.kind = "Status" /\ resp.message = VerifyErr

\* Mutation: registration drops the sessions held by the name registered.
register_user_drops_sessions(st, user_name, y1, y2) ==
    [st EXCEPT
        !.users =
            Insert(st.users, user_name,
                   [id |-> user_name, y1 |-> y1, y2 |-> y2,
                    auth_id |-> None, session_id |-> None]),
        !.sessions =
            [sid \in {i \in DOMAIN st.sessions : st.sessions[i].user_id # user_name}
                |-> st.sessions[sid]]]

\* Mutation: re-registration keeps the record's auth_id and session_id.
register_user_keep_links(st, user_name, y1, y2) ==
    IF user_name \in DOMAIN st.users
    THEN [st EXCEPT !.users[user_name].y1 = y1, !.users[user_name].y2 = y2]
    ELSE [st EXCEPT !.users =
            Insert(st.users, user_name,
                   [id |-> user_name, y1 |-> y1, y2 |-> y2,
                    auth_id |-> None, session_id |-> None])]

register_user(st, user_name, y1, y2) ==
    [st EXCEPT !.users =
        Insert(st.users, user_name,
               [id |-> user_name, y1 |-> y1, y2 |-> y2,
                auth_id |-> None, session_id |-> None])]

\* Mutation: the record is linked to the new challenge id, the challenge
\* itself is not inserted.
create_authentication_challenge_link_only(st, user_name, auth_id, r1, r2, c) ==
    IF user_name \in DOMAIN st.users
    THEN LET user_data == st.users[user_name]
             kept == IF user_data.auth_id # None
                     THEN Remove(st.challenges, user_data.auth_id[1])
                     ELSE st.challenges
         IN  [result |-> Ok,
              st |-> [st EXCEPT !.users[user_name].auth_id = Some(auth_id),
                                !.challenges = kept]]
    ELSE [result |-> Status_unauthenticated(MsgNoUser), st |-> st]

\* Mutation: issuing a challenge empties the challenge registry first.
create_authentication_challenge_clears_registry(st, user_name, auth_id, r1, r2, c) ==
    IF user_name \in DOMAIN st.users
    THEN [result |-> Ok,
          st |-> [st EXCEPT
                    !.users[user_name].auth_id = Some(auth_id),
                    !.challenges =
                        Insert(EmptyMap, auth_id,
                               [id |-> auth_id, c |-> c, r1 |-> r1, r2 |-> r2,
                                user_id |-> user_name])]]
    ELSE [result |-> Status_unauthenticated(MsgNoUser), st |-> st]

\* Mutation: the challenge is stored with r1 and r2 in each other's place.
create_authentication_challenge_swapped(st, user_name, auth_id, r1, r2, c) ==
    IF user_name \in DOMAIN st.users
    THEN LET user_data == st.users[user_name]
             kept == IF user_data.auth_id # None
                     THEN Remove(st.challenges, user_data.auth_id[1])
                     ELSE st.challenges
         IN  [result |-> Ok,
              st |-> [st EXCEPT
                        !.users[user_name].auth_id = Some(auth_id),
                        !.challenges =
                            Insert(kept, auth_id,
                                   [id |-> auth_id, c |-> c, r1 |-> r2, r2 |-> r1,
                                    user_id |-> user_name])]]
    ELSE [result |-> Status_unauthenticated(MsgNoUser), st |-> st]

\* Mutation: the challenge is inserted before the user is looked up.
create_authentication_challenge_insert_first(st, user_name, auth_id, r1, r2, c) ==
    LET inserted ==
            Insert(st.challenges, auth_id,
                   [id |-> auth_id, c |-> c, r1 |-> r1, r2 |-> r2,
                    user_id |-> user_name])
    IN  IF user_name \in DOMAIN st.users
        THEN [result |-> Ok,
              st |-> [st EXCEPT !.users[user_name].auth_id = Some(auth_id),
                                !.challenges = inserted]]
        ELSE [result |-> Status_unauthenticated(MsgNoUser),
              st |-> [st EXCEPT !.challenges = inserted]]

create_authentication_challenge(st, user_name, auth_id, r1, r2, c) ==
    IF user_name \in DOMAIN st.users
    THEN LET user_data == st.users[user_name]
             kept == IF user_data.auth_id # None
                     THEN Remove(st.challenges, user_data.auth_id[1])
                     ELSE st.challenges
         IN  [result |-> Ok,
              st |-> [st EXCEPT
                        !.users[user_name].auth_id = Some(auth_id),
                        !.challenges =
                            Insert(kept, auth_id,
                                   [id |-> auth_id, c |-> c, r1 |-> r1, r2 |-> r2,
                                    user_id |-> user_name])]]
    ELSE [result |-> Status_unauthenticated(MsgNoUser), st |-> st]

\* Mutation: the session is inserted whether or not the user is registered.
create_session_unchecked(st, user_name, session_id) ==
    LET inserted ==
            Insert(st.sessions, session_id,
                   [id |-> session_id, user_id |-> user_name])
    IN  IF user_name \in DOMAIN st.users
        THEN [result |-> Ok,
              st |-> [st EXCEPT !.users[user_name].session_id = Some(session_id),
                                !.sessions = inserted]]
        ELSE [result |-> Status_unauthenticated(MsgNoUser),
              st |-> [st EXCEPT !.sessions = inserted]]

\* Mutation: the new session takes the place of the user's previous one.
create_session_replaces(st, user_name, session_id) ==
    IF user_name \in DOMAIN st.users
    THEN LET user_data == st.users[user_name]
             kept == IF user_data.session_id # None
                     THEN Remove(st.sessions, user_data.session_id[1])
                     ELSE st.sessions
         IN  [result |-> Ok,
              st |-> [st EXCEPT
                        !.users[user_name].session_id = Some(session_id),
                        !.sessions =
                            Insert(kept, session_id,
                                   [id |-> session_id, user_id |-> user_name])]]
    ELSE [result |-> Status_unauthenticated(MsgNoUser), st |-> st]

\* Mutation: the session is inserted, the user's session_id is left alone.
create_session_no_link(st, user_name, session_id) ==
    IF user_name \in DOMAIN st.users
    THEN [result |-> Ok,
          st |-> [st EXCEPT !.sessions =
                    Insert(st.sessions, session_id,
                           [id |-> session_id, user_id |-> user_name])]]
    ELSE [result |-> Status_unauthenticated(MsgNoUser), st |-> st]

create_session(st, user_name, session_id) ==
    IF user_name \in DOMAIN st.users
    THEN [result |-> Ok,
          st |-> [st EXCEPT
                    !.users[user_name].session_id = Some(session_id),
                    !.sessions =
                        Insert(st.sessions, session_id,
                               [id |-> session_id, user_id |-> user_name])]]
    ELSE [result |-> Status_unauthenticated(MsgNoUser), st |-> st]

\* Mutation: the outcome of the engine's verify is dropped.
verify_read_unchecked(st, auth_id, s_bigint) ==
    IF auth_id \notin DOMAIN st.challenges
    THEN [result |-> Status_aborted(MsgNoChallenge), user_name |-> ""]
    ELSE LET challenge == st.challenges[auth_id]
         IN  IF challenge.user_id \notin DOMAIN st.users
             THEN [result |-> Status_aborted(MsgNoUser), user_name |-> ""]
             ELSE [result |-> Ok, user_name |-> st.users[challenge.user_id].id]

\* Mutation: a missing challenge is reported as a missing user.
verify_read_wrong_status(st, auth_id, s_bigint) ==
    IF auth_id \notin DOMAIN st.challenges
    THEN [result |-> Status_aborted(MsgNoUser), user_name |-> ""]
    ELSE LET challenge == st.challenges[auth_id]
         IN  IF challenge.user_id \notin DOMAIN st.users
             THEN [result |-> Status_aborted(MsgNoUser), user_name |-> ""]
             ELSE LET user == st.users[challenge.user_id]
                      checked == verify(user.y1, user.y2, challenge.r1,
                                        challenge.r2, s_bigint, challenge.c)
                  IN  IF checked # "Ok"
                      THEN [result |-> Status_unauthenticated(checked),
                            user_name |-> ""]
                      ELSE [result |-> Ok, user_name |-> user.id]

\* verify_authentication, the block that holds the read guard: the two
\* lookups, the engine's verify, and the user name it yields.
verify_read(st, auth_id, s_bigint) ==
    IF auth_id \notin DOMAIN st.challenges
    THEN [result |-> Status_aborted(MsgNoChallenge), user_name |-> ""]
    ELSE LET challenge == st.challenges[auth_id]
         IN  IF challenge.user_id \notin DOMAIN st.users
             THEN [result |-> Status_aborted(MsgNoUser), user_name |-> ""]
             ELSE LET user == st.users[challenge.user_id]
                      checked == verify(user.y1, user.y2, challenge.r1,
                                        challenge.r2, s_bigint, challenge.c)
                  IN  IF checked # "Ok"
                      THEN [result |-> Status_unauthenticated(checked),
                            user_name |-> ""]
                      ELSE [result |-> Ok, user_name |-> user.id]

(***************************************************************************)
(* Spec: the handlers of PedersenChaumAuthServer as concurrent tasks       *)
(***************************************************************************)
\* Bounds of the server model.
NumTasks == 2               \* requests in flight at once
MaxUuids == 3               \* ids Uuid::new_v4() hands out in a run
MaxServerSecret == 2        \* registering clients hold a secret x in 1..MaxServerSecret
MaxServerEphemeral == 3     \* clients commit to k in MaxServerSecret+1..MaxServerEphemeral
MaxServerChallenge == 1     \* generate_random() returns c in 1..MaxServerChallenge
MaxServerResponse == 2      \* clients answer s in 1..MaxServerResponse

Tasks == 1 .. NumTasks

UserNames == {"alice", "bob"}

AuthIds == 1 .. MaxUuids

ServerSecrets == 1 .. MaxServerSecret

ServerEphemerals == (MaxServerSecret + 1) .. MaxServerEphemeral

ServerChallenges == 1 .. MaxServerChallenge

ServerResponses == 1 .. MaxServerResponse

NoReq == [op |-> "none"]

NoLoc == [user_name |-> ""]

NoResp == [kind |-> "none"]

Idle == [pc |-> "idle", req |-> NoReq, loc |-> NoLoc, resp |-> NoResp]

LockFree == lock.writer = 0 /\ lock.readers = {}

\* PedersenChaumAuthServer::new
InitServer ==
    /\ state = NewState
    /\ lock = [writer |-> 0, readers |-> {}]
    /\ task = [t \in Tasks |-> Idle]
    /\ next_uuid = 1
    /\ used = {}

\* ---- the requests the client builds (client.rs 70-129) -------------------
\* Mutation: the registration request carries the secret next to (y1, y2).
RegisterRequest_with_secret(user, x) ==
    [op |-> "register", user |-> user,
     y1 |-> to_bytes_be(commit(x).r1),
     y2 |-> to_bytes_be(commit(x).r2),
     x |-> to_bytes_be(x)]

\* register_user: (y1, y2) = commit(x); RegisterRequest {user, y1, y2}
RegisterRequest(user, x) ==
    [op |-> "register", user |-> user,
     y1 |-> to_bytes_be(commit(x).r1),
     y2 |-> to_bytes_be(commit(x).r2)]

\* authenticate_user: (r1, r2) = commit(k);
\* AuthenticationChallengeRequest {user, r1, r2}
AuthenticationChallengeRequest(user, k) ==
    [op |-> "challenge", user |-> user,
     r1 |-> to_bytes_be(commit(k).r1),
     r2 |-> to_bytes_be(commit(k).r2)]

\* authenticate_user: AuthenticationAnswerRequest {auth_id, s}
AuthenticationAnswerRequest(auth_id, s) ==
    [op |-> "verify", auth_id |-> auth_id, s |-> to_bytes_be(s)]

\* ---- register (server.rs 56-70) ----------------------------------------
\* The client commits to x and sends the bytes; the handler decodes them and
\* waits for the write lock.
RegisterCall(t) ==
    /\ task[t].pc = "idle"
    /\ \E user \in UserNames, x \in ServerSecrets :
         LET req == RegisterRequest(user, x)
         IN  task' = [task EXCEPT ![t] =
                        [pc |-> "register_wait", req |-> req,
                         loc |-> [y1_bigint |-> from_bytes_be(req.y1),
                                  y2_bigint |-> from_bytes_be(req.y2)],
                         resp |-> NoResp]]
    /\ UNCHANGED <<state, lock, next_uuid, used, engine_vars, wire, call>>

RegisterLock(t) ==
    /\ task[t].pc = "register_wait"
    /\ LockFree
    /\ lock' = [lock EXCEPT !.writer = t]
    /\ task' = [task EXCEPT ![t].pc = "register_write"]
    /\ UNCHANGED <<state, next_uuid, used, engine_vars, wire, call>>

RegisterWrite(t) ==
    /\ task[t].pc = "register_write"
    /\ state' = register_user(state, task[t].req.user,
                              task[t].loc.y1_bigint, task[t].loc.y2_bigint)
    /\ lock' = [lock EXCEPT !.writer = 0]
    /\ task' = [task EXCEPT ![t].pc = "respond",
                            ![t].resp = [kind |-> "RegisterResponse"]]
    /\ UNCHANGED <<next_uuid, used, engine_vars, wire, call>>

\* ---- create_authentication_challenge (server.rs 85-116) -----------------
\* The handler decodes r1 and r2, draws c and the challenge id, then waits for
\* the write lock.
ChallengeCall(t) ==
    /\ task[t].pc = "idle"
    /\ next_uuid <= MaxUuids
    /\ \E user \in UserNames, k \in ServerEphemerals, c \in ServerChallenges :
         LET req == AuthenticationChallengeRequest(user, k)
         IN  task' = [task EXCEPT ![t] =
                        [pc |-> "challenge_wait", req |-> req,
                         loc |-> [r1_bigint |-> from_bytes_be(req.r1),
                                  r2_bigint |-> from_bytes_be(req.r2),
                                  c |-> c, auth_id |-> next_uuid],
                         resp |-> NoResp]]
    /\ next_uuid' = next_uuid + 1
    /\ UNCHANGED <<state, lock, used, engine_vars, wire, call>>

ChallengeLock(t) ==
    /\ task[t].pc = "challenge_wait"
    /\ LockFree
    /\ lock' = [lock EXCEPT !.writer = t]
    /\ task' = [task EXCEPT ![t].pc = "challenge_write"]
    /\ UNCHANGED <<state, next_uuid, used, engine_vars, wire, call>>

ChallengeWrite(t) ==
    /\ task[t].pc = "challenge_write"
    /\ LET loc == task[t].loc
           done == create_authentication_challenge(
                       state, task[t].req.user, loc.auth_id,
                       loc.r1_bigint, loc.r2_bigint, loc.c)
       IN  /\ state' = done.st
           /\ task' = [task EXCEPT
                 ![t].pc = "respond",
                 ![t].resp =
                    IF done.result = Ok
                    THEN [kind |-> "AuthenticationChallengeResponse",
                          auth_id |-> loc.auth_id, c |-> to_bytes_be(loc.c)]
                    ELSE done.result]
    /\ lock' = [lock EXCEPT !.writer = 0]
    /\ UNCHANGED <<next_uuid, used, engine_vars, wire, call>>

\* ---- verify_authentication (server.rs 131-176) --------------------------
\* Verify calls that have not yet reached Uuid::new_v4().
MayMint == {t \in Tasks : task[t].pc \in {"verify_wait", "verify_read"}}

VerifyCall(t) ==
    /\ task[t].pc = "idle"
    /\ next_uuid + Cardinality(MayMint) <= MaxUuids
    /\ \E auth_id \in AuthIds, s \in ServerResponses :
         LET req == AuthenticationAnswerRequest(auth_id, s)
         IN  task' = [task EXCEPT ![t] =
                        [pc |-> "verify_wait", req |-> req,
                         loc |-> [s_bigint |-> from_bytes_be(req.s),
                                  replay |-> auth_id \in used],
                         resp |-> NoResp]]
    /\ UNCHANGED <<state, lock, next_uuid, used, engine_vars, wire, call>>

VerifyReadLock(t) ==
    /\ task[t].pc = "verify_wait"
    /\ lock.writer = 0
    /\ lock' = [lock EXCEPT !.readers = @ \cup {t}]
    /\ task' = [task EXCEPT ![t].pc = "verify_read"]
    /\ UNCHANGED <<state, next_uuid, used, engine_vars, wire, call>>

\* Mutation: the read guard is still held when the block is left.
VerifyCheck_keeps_guard(t) ==
    /\ task[t].pc = "verify_read"
    /\ LET read == verify_read(state, task[t].req.auth_id, task[t].loc.s_bigint)
       IN  \/ /\ read.result # Ok
              /\ task' = [task EXCEPT ![t].pc = "respond", ![t].resp = read.result]
              /\ UNCHANGED next_uuid
           \/ /\ read.result = Ok
              /\ task' = [task EXCEPT
                    ![t].pc = "session_wait",
                    ![t].loc = [user_name |-> read.user_name,
                                session_id |-> next_uuid,
                                replay |-> task[t].loc.replay]]
              /\ next_uuid' = next_uuid + 1
    /\ UNCHANGED <<state, lock, used, engine_vars, wire, call>>

\* The read-locked block, the read guard dropped at its end (or at the `?`
\* that returns early), then the session id.
VerifyCheck(t) ==
    /\ task[t].pc = "verify_read"
    /\ LET read == verify_read(state, task[t].req.auth_id, task[t].loc.s_bigint)
       IN  \/ /\ read.result # Ok
              /\ task' = [task EXCEPT ![t].pc = "respond", ![t].resp = read.result]
              /\ UNCHANGED next_uuid
           \/ /\ read.result = Ok
              /\ task' = [task EXCEPT
                    ![t].pc = "session_wait",
                    ![t].loc = [user_name |-> read.user_name,
                                session_id |-> next_uuid,
                                replay |-> task[t].loc.replay]]
              /\ next_uuid' = next_uuid + 1
    /\ lock' = [lock EXCEPT !.readers = @ \ {t}]
    /\ UNCHANGED <<state, used, engine_vars, wire, call>>

SessionLock(t) ==
    /\ task[t].pc = "session_wait"
    /\ LockFree
    /\ lock' = [lock EXCEPT !.writer = t]
    /\ task' = [task EXCEPT ![t].pc = "session_write"]
    /\ UNCHANGED <<state, next_uuid, used, engine_vars, wire, call>>

SessionWrite(t) ==
    /\ task[t].pc = "session_write"
    /\ LET loc == task[t].loc
           done == create_session(state, loc.user_name, loc.session_id)
       IN  /\ state' = done.st
           /\ task' = [task EXCEPT
                 ![t].pc = "respond",
                 ![t].resp =
                    IF done.result = Ok
                    THEN [kind |-> "AuthenticationAnswerResponse",
                          session_id |-> loc.session_id]
                    ELSE done.result]
           /\ used' = IF done.result = Ok
                      THEN used \cup {task[t].req.auth_id} ELSE used
    /\ lock' = [lock EXCEPT !.writer = 0]
    /\ UNCHANGED <<next_uuid, engine_vars, wire, call>>

\* The response leaves the handler; the task is free for the next request.
Respond(t) ==
    /\ task[t].pc = "respond"
    /\ task' = [task EXCEPT ![t] = Idle]
    /\ UNCHANGED <<state, lock, next_uuid, used, engine_vars, wire, call>>

Init ==
    /\ InitServer
    /\ round = NoRound
    /\ trial = NoTrial
    /\ wire = NoWire
    /\ call = NoCall

Next ==
    \E t \in Tasks :
        \/ RegisterCall(t)
        \/ RegisterLock(t)
        \/ RegisterWrite(t)
        \/ ChallengeCall(t)
        \/ ChallengeLock(t)
        \/ ChallengeWrite(t)
        \/ VerifyCall(t)
        \/ VerifyReadLock(t)
        \/ VerifyCheck(t)
        \/ SessionLock(t)
        \/ SessionWrite(t)
        \/ Respond(t)

Spec == Init /\ [][Next]_vars

\* The scheduling the handlers run under.  The runtime keeps polling a task
\* that can go on (weak fairness of the steps that wait for nothing), and
\* tokio's RwLock hands the lock out in order of arrival, so a task that
\* waits for it gets it once the holders are gone, however often others
\* take it in between (strong fairness of the steps that take the lock).
\* Nothing makes a client call.
Fairness ==
    \A t \in Tasks :
        /\ WF_vars(RegisterWrite(t))
        /\ WF_vars(ChallengeWrite(t))
        /\ WF_vars(VerifyCheck(t))
        /\ WF_vars(SessionWrite(t))
        /\ SF_vars(RegisterLock(t))
        /\ SF_vars(ChallengeLock(t))
        /\ SF_vars(VerifyReadLock(t))
        /\ SF_vars(SessionLock(t))

\* The fair runs are those of one client: every Register and IssueChallenge
\* call is for the same user with the same secret (VerifyAnswer names no
\* user).  The lock is taken and released the same way whoever calls.
LoneUser == CHOOSE user \in UserNames : TRUE

LoneSecret == CHOOSE x \in ServerSecrets : \A y \in ServerSecrets : x <= y

FromLoneClient(t) ==
    /\ task'[t].req.op = "register"
          => task'[t].req = RegisterRequest(LoneUser, LoneSecret)
    /\ task'[t].req.op = "challenge" => task'[t].req.user = LoneUser

NextFair ==
    \E t \in Tasks :
        \/ RegisterCall(t) /\ FromLoneClient(t)
        \/ RegisterLock(t)
        \/ RegisterWrite(t)
        \/ ChallengeCall(t) /\ FromLoneClient(t)
        \/ ChallengeLock(t)
        \/ ChallengeWrite(t)
        \/ VerifyCall(t)
        \/ VerifyReadLock(t)
        \/ VerifyCheck(t)
        \/ SessionLock(t)
        \/ SessionWrite(t)
        \/ Respond(t)

SpecFair == Init /\ [][NextFair]_vars /\ Fairness

(***************************************************************************)
(* SpecEngine: one round, as the engine's tests and the client run it      *)
(***************************************************************************)
InitEngine ==
    /\ round = NoRound
    /\ trial = NoTrial
    /\ InitServer
    /\ wire = NoWire
    /\ call = NoCall

\* client.rs register_user: (y1, y2) = commit(x)
PickSecret ==
    /\ round.stage = "start"
    /\ \E x \in Scalars :
         round' = [round EXCEPT !.stage = "registered", !.x = x,
                                !.y1 = commit(x).r1, !.y2 = commit(x).r2]
    /\ UNCHANGED <<trial, server_vars, wire, call>>

\* client.rs authenticate_user: k = generate_random(); (r1, r2) = commit(k)
PickEphemeral ==
    /\ round.stage = "registered"
    /\ \E k \in Scalars :
         round' = [round EXCEPT !.stage = "committed", !.k = k,
                                !.r1 = commit(k).r1, !.r2 = commit(k).r2]
    /\ UNCHANGED <<trial, server_vars, wire, call>>

\* server.rs create_authentication_challenge: c = generate_random()
DrawChallenge ==
    /\ round.stage = "committed"
    /\ \E c \in RandomValues :
         round' = [round EXCEPT !.stage = "challenged", !.c = c]
    /\ UNCHANGED <<trial, server_vars, wire, call>>

\* client.rs authenticate_user: s = solve_challenge(x, k, c)
Solve ==
    /\ round.stage = "challenged"
    /\ round' = [round EXCEPT !.stage = "solved",
                              !.s = solve_challenge(round.x, round.k, round.c)]
    /\ UNCHANGED <<trial, server_vars, wire, call>>

Try(kind, y1, y2, r1, r2, s, c, x2) ==
    /\ round.stage = "solved"
    /\ round' = [round EXCEPT !.stage = "verified"]
    /\ trial' = [kind |-> kind, y1 |-> y1, y2 |-> y2, r1 |-> r1, r2 |-> r2,
                 s |-> s, c |-> c, x2 |-> x2,
                 outcome |-> verify(y1, y2, r1, r2, s, c)]
    /\ UNCHANGED <<server_vars, wire, call>>

\* test_chaum_pedersen_algorithm_in_success_case
VerifyHonest ==
    Try("honest", round.y1, round.y2, round.r1, round.r2, round.s, round.c, round.x)

\* test_chaum_pedersen_algorithm_if_mismatched_secret: y1, y2 or both commit
\* to another secret x2 than the one the response was solved with.
VerifyWrongSecret ==
    \E x2 \in Scalars \ {round.x} :
        \/ Try("wrong_y1", commit(x2).r1, round.y2, round.r1, round.r2,
               round.s, round.c, x2)
        \/ Try("wrong_y2", round.y1, commit(x2).r2, round.r1, round.r2,
               round.s, round.c, x2)
        \/ Try("wrong_y", commit(x2).r1, commit(x2).r2, round.r1, round.r2,
               round.s, round.c, x2)

\* another response than the solved one
VerifyWrongResponse ==
    \E s2 \in Responses \ {round.s} :
        Try("wrong_s", round.y1, round.y2, round.r1, round.r2, s2, round.c, round.x)

\* the round's (r1, r2, s) checked against another challenge scalar
VerifyReplay ==
    \E c2 \in RandomValues \ {round.c} :
        Try("replay", round.y1, round.y2, round.r1, round.r2, round.s, c2, round.x)

NextEngine ==
    \/ PickSecret
    \/ PickEphemeral
    \/ DrawChallenge
    \/ Solve
    \/ VerifyHonest
    \/ VerifyWrongSecret
    \/ VerifyWrongResponse
    \/ VerifyReplay

SpecEngine == InitEngine /\ [][NextEngine]_vars

(***************************************************************************)
(* SpecWire: one big integer sent as bytes and decoded by the peer, for a  *)
(* parameter set whose scalars are wider than one byte                     *)
(***************************************************************************)
\* Parameters::bit_size of the parameter set on the wire: a whole number of
\* bytes, as the 256 of DEFAULT_PARAMS is, scaled to two bytes.
WireBitSize == 16

\* rng.gen_biguint(bit_size) for that parameter set; the group elements and
\* the responses of the set are integers of the same width.
WireValues == 0 .. (Pow2(WireBitSize) - 1)

\* The fields the client encodes for the server to decode.
ClientFields == {"y1", "y2", "r1", "r2", "s"}

InitWire ==
    /\ wire = NoWire
    /\ call = NoCall
    /\ round = NoRound
    /\ trial = NoTrial
    /\ InitServer

\* server.rs create_authentication_challenge: c = generate_random() goes
\* into the response as c.to_bytes_be().1
ServerEncodesChallenge ==
    /\ wire.stage = "start"
    /\ \E c \in WireValues :
         wire' = [stage |-> "sent", field |-> "c", v |-> c,
                  bytes |-> to_bytes_be(c), decoded |-> 0]
    /\ UNCHANGED <<engine_vars, server_vars, call>>

\* client.rs register_user / authenticate_user: y1, y2, r1, r2 and s go into
\* the requests as to_bytes_be().1
ClientEncodes ==
    /\ wire.stage = "start"
    /\ \E field \in ClientFields, v \in WireValues :
         wire' = [stage |-> "sent", field |-> field, v |-> v,
                  bytes |-> to_bytes_be(v), decoded |-> 0]
    /\ UNCHANGED <<engine_vars, server_vars, call>>

\* the peer's BigInt::from_bytes_be(Sign::Plus, &bytes)
PeerDecodes ==
    /\ wire.stage = "sent"
    /\ wire' = [wire EXCEPT !.stage = "received",
                            !.decoded = from_bytes_be(wire.bytes)]
    /\ UNCHANGED <<engine_vars, server_vars, call>>

NextWire ==
    \/ ServerEncodesChallenge
    \/ ClientEncodes
    \/ PeerDecodes

SpecWire == InitWire /\ [][NextWire]_vars

(***************************************************************************)
(* SpecState: the operations of PedersenChaumAuthServerState called        *)
(* directly, in any order, as the unit tests of state.rs call them         *)
(***************************************************************************)
InitState ==
    /\ call = NoCall
    /\ wire = NoWire
    /\ round = NoRound
    /\ trial = NoTrial
    /\ InitServer

\* state.register_user(user_name, y1, y2)
CallRegisterUser ==
    /\ \E user_name \in UserNames, x \in ServerSecrets :
         /\ state' = register_user(state, user_name, commit(x).r1, commit(x).r2)
         /\ call' = [op |-> "register_user", user_name |-> user_name,
                     id |-> 0, result |-> Ok]
    /\ UNCHANGED <<lock, task, next_uuid, used, engine_vars, wire>>

\* state.create_authentication_challenge(user_name, auth_id, r1, r2, c)
CallCreateAuthenticationChallenge ==
    /\ next_uuid <= MaxUuids
    /\ \E user_name \in UserNames, k \in ServerEphemerals, c \in ServerChallenges :
         LET done == create_authentication_challenge(
                         state, user_name, next_uuid,
                         commit(k).r1, commit(k).r2, c)
         IN  /\ state' = done.st
             /\ call' = [op |-> "create_authentication_challenge",
                         user_name |-> user_name, id |-> next_uuid,
                         result |-> done.result]
    /\ next_uuid' = next_uuid + 1
    /\ UNCHANGED <<lock, task, used, engine_vars, wire>>

\* state.create_session(user_name, session_id)
CallCreateSession ==
    /\ next_uuid <= MaxUuids
    /\ \E user_name \in UserNames :
         LET done == create_session(state, user_name, next_uuid)
         IN  /\ state' = done.st
             /\ call' = [op |-> "create_session", user_name |-> user_name,
                         id |-> next_uuid, result |-> done.result]
    /\ next_uuid' = next_uuid + 1
    /\ UNCHANGED <<lock, task, used, engine_vars, wire>>

NextState ==
    \/ CallRegisterUser
    \/ CallCreateAuthenticationChallenge
    \/ CallCreateSession

SpecState == InitState /\ [][NextState]_vars

(***************************************************************************)
(* Properties of the engine (checked under SpecEngine)                     *)
(***************************************************************************)
WrongSecretKinds == {"wrong_y1", "wrong_y2", "wrong_y"}

\* C1: completeness. An honest round - y = commit(x), r = commit(k),
\* s = solve_challenge(x, k, c) - always verifies, for every x, k and c of the
\* bounded range, those larger than q included.
C1_Completeness ==
    trial.kind = "honest" => trial.outcome = "Ok"

C1_Witness ==
    /\ trial.kind = "honest"
    /\ trial.outcome = "Ok"
    /\ round.x > q
    /\ round.c > q
    /\ round.k - (round.c * round.x) < 0
    /\ g % p # 1 /\ ModPow(g, q, p) = 1
    /\ h % p # 1 /\ ModPow(h, q, p) = 1

\* C2 as claimed: a response solved with x never verifies against y1 or y2
\* committing to another secret x2 # x, whatever c generate_random returned.
C2_WrongSecretAlwaysFails ==
    trial.kind \in WrongSecretKinds => trial.outcome = VerifyErr

\* C2 amended: the mismatched attempt fails exactly when c is not a multiple
\* of q and x2 is not congruent to x modulo q.
C2_WrongSecretFailsUnlessDegenerate ==
    trial.kind \in WrongSecretKinds =>
        (trial.outcome = VerifyErr
            <=> (trial.c % q # 0 /\ trial.x2 % q # round.x % q))

C2_Witness ==
    /\ trial.kind = "wrong_y1"
    /\ trial.c % q # 0
    /\ trial.x2 % q # round.x % q
    /\ trial.c > q
    /\ trial.outcome = VerifyErr

\* C3 as claimed: every response s2 # s fails for the honest round.
C3_WrongResponseAlwaysFails ==
    trial.kind = "wrong_s" => trial.outcome = VerifyErr

\* C3 amended: a response s2 # s fails exactly when s2 is not congruent to s
\* modulo q (verify never checks s2 < q).
C3_WrongResponseFailsUnlessCongruent ==
    trial.kind = "wrong_s" =>
        (trial.outcome = VerifyErr <=> trial.s % q # round.s)

C3_Witness ==
    /\ trial.kind = "wrong_s"
    /\ trial.s > q
    /\ trial.s % q # round.s
    /\ round.c % q # 0
    /\ trial.outcome = VerifyErr

\* C4 as claimed: the round's (r1, r2, s) fails against every other challenge
\* scalar c2 # c that generate_random can return.
C4_ReplayAlwaysFails ==
    trial.kind = "replay" => trial.outcome = VerifyErr

\* C4 amended: the replay fails exactly when c2 is not congruent to c modulo q
\* and the secret is not a multiple of q.
C4_ReplayFailsUnlessCongruent ==
    trial.kind = "replay" =>
        (trial.outcome = VerifyErr
            <=> (trial.c % q # round.c % q /\ round.x % q # 0))

C4_Witness ==
    /\ trial.kind = "replay"
    /\ trial.c % q # round.c % q
    /\ round.x % q # 0
    /\ trial.c > q
    /\ trial.outcome = VerifyErr

(***************************************************************************)
(* Properties of the server (checked under Spec)                           *)
(***************************************************************************)
\* The steps of the handlers, as seen in a pair of states.
CheckStep(t) == task[t].pc = "verify_read" /\ task'[t].pc # "verify_read"

CommitStep(t) == task[t].pc = "session_write" /\ task'[t].pc = "respond"

ChallengeStep(t) == task[t].pc = "challenge_write" /\ task'[t].pc = "respond"

\* The challenge ids whose entry in a state's challenge registry names user u.
Owned(st, u) == {id \in DOMAIN st.challenges : st.challenges[id].user_id = u}

\* The request of task t answers the live challenge of its owner honestly:
\* the owner registered commit(x), the challenge holds commit(k) and the
\* response is solve_challenge(x, k, c) for the challenge's c.
HonestAnswer(st, t) ==
    LET id == task[t].req.auth_id
    IN  /\ task[t].req.op = "verify"
        /\ id \in DOMAIN st.challenges
        /\ LET ch == st.challenges[id]
           IN  /\ ch.user_id \in DOMAIN st.users
               /\ st.users[ch.user_id].auth_id = Some(id)
               /\ \E x \in Scalars, k \in Scalars :
                    /\ st.users[ch.user_id].y1 = commit(x).r1
                    /\ st.users[ch.user_id].y2 = commit(x).r2
                    /\ ch.r1 = commit(k).r1
                    /\ ch.r2 = commit(k).r2
                    /\ from_bytes_be(task[t].req.s) = solve_challenge(x, k, ch.c)

\* C5: an honest login succeeds and records the session.  The read-locked
\* check of an honest answer to the user's live challenge passes and changes
\* no registry; the write-locked step that follows answers with the session
\* id sid, inserts sessions[sid] = {sid, u}, sets users[u].session_id = sid,
\* and leaves users[u].auth_id and the whole challenge registry as they were,
\* so the satisfied challenge is still there, unchanged.
C5_HonestLoginRecordsSession ==
    [][\A t \in Tasks :
        /\ (CheckStep(t) /\ HonestAnswer(state, t)) =>
              /\ task'[t].pc = "session_wait"
              /\ task'[t].loc.user_name = state.challenges[task[t].req.auth_id].user_id
              /\ state' = state
        /\ CommitStep(t) =>
              LET u == task[t].loc.user_name
                  sid == task[t].loc.session_id
                  id == task[t].req.auth_id
              IN  /\ task'[t].resp = [kind |-> "AuthenticationAnswerResponse",
                                      session_id |-> sid]
                  /\ sid \in DOMAIN state'.sessions
                  /\ state'.sessions[sid] = [id |-> sid, user_id |-> u]
                  /\ state'.users[u].session_id = Some(sid)
                  /\ state'.users[u].auth_id = state.users[u].auth_id
                  /\ state'.users[u].y1 = state.users[u].y1
                  /\ state'.users[u].y2 = state.users[u].y2
                  /\ state'.challenges = state.challenges
                  /\ (HonestAnswer(state, t) => HonestAnswer(state', t))
    ]_vars

C5_Witness ==
    \E t \in Tasks :
        /\ task[t].pc = "respond"
        /\ task[t].resp.kind = "AuthenticationAnswerResponse"
        /\ HonestAnswer(state, t)
        /\ state.sessions[task[t].resp.session_id]
              = [id |-> task[t].resp.session_id, user_id |-> task[t].loc.user_name]
        /\ state.users[task[t].loc.user_name].session_id
              = Some(task[t].resp.session_id)
        /\ state.users[task[t].loc.user_name].auth_id = Some(task[t].req.auth_id)

\* C6: a challenge id yields at most one successful login: a VerifyAnswer
\* called after the same id has already yielded a session does not succeed
\* (the claim says how it fails: with ChallengeNotFound).
C6_ChallengeUsedOnce ==
    \A t \in Tasks :
        (task[t].pc = "respond" /\ task[t].req.op = "verify" /\ task[t].loc.replay)
            => task[t].resp.kind # "AuthenticationAnswerResponse"

\* C7: challenge supersession.  When a challenge is issued to a user whose
\* record already names one (two challenges issued in sequence), the registry
\* afterwards holds exactly one entry for that user, the second one, named by
\* users[u].auth_id, and a VerifyAnswer on the first id then fails with
\* ChallengeNotFound.
C7_Supersession ==
    [][\A t \in Tasks :
        LET u == task[t].req.user
        IN  (/\ ChallengeStep(t)
             /\ u \in DOMAIN state.users
             /\ state.users[u].auth_id # None)
            => LET first == state.users[u].auth_id[1]
                   second == task[t].loc.auth_id
               IN  /\ Owned(state', u) = {second}
                   /\ state'.users[u].auth_id = Some(second)
                   /\ \A s \in ServerResponses :
                        IsChallengeNotFound(verify_read(state', first, s).result)
    ]_vars

\* C8: at most one live challenge per user in every reachable state, so the
\* challenge registry never holds more entries than there are registered users.
C8_OneChallengePerUser ==
    /\ \A u \in UserNames : Cardinality(Owned(state, u)) <= 1
    /\ Cardinality(DOMAIN state.challenges) <= Cardinality(DOMAIN state.users)

\* C9: IssueChallenge for a user that is not registered fails with
\* UserNotFound and leaves the three registries exactly as they were.
C9_ChallengeForUnknownUser ==
    [][\A t \in Tasks :
        (ChallengeStep(t) /\ task[t].req.user \notin DOMAIN state.users)
            => /\ IsUserNotFound(task'[t].resp)
               /\ state' = state
    ]_vars

C9_Witness ==
    \E t \in Tasks :
        /\ task[t].pc = "respond"
        /\ task[t].req.op = "challenge"
        /\ IsUserNotFound(task[t].resp)
        /\ task[t].req.user \notin DOMAIN state.users
        /\ DOMAIN state.users # {}
        /\ task[t].loc.auth_id \notin DOMAIN state.challenges

\* A VerifyAnswer made for a never-registered user: the request names no
\* user, only a challenge id, and the id is not the challenge of any
\* registered user.
ForUnregisteredUser(t) ==
    LET id == task[t].req.auth_id
    IN  \/ id \notin DOMAIN state.challenges
        \/ state.challenges[id].user_id \notin DOMAIN state.users

\* C10 as claimed: VerifyAnswer for a never-registered user fails with the
\* UserNotFound error kind.
C10_UnregisteredVerifyIsUserNotFound ==
    [][\A t \in Tasks :
        (CheckStep(t) /\ ForUnregisteredUser(t)) => IsUserNotFound(task'[t].resp)
    ]_vars

\* C10 amended: VerifyAnswer for a never-registered user fails with
\* ChallengeNotFound, and no entry appears in any registry.
C10_UnregisteredVerifyIsChallengeNotFound ==
    [][\A t \in Tasks :
        (CheckStep(t) /\ ForUnregisteredUser(t))
            => /\ task'[t].pc = "respond"
               /\ IsChallengeNotFound(task'[t].resp)
               /\ state' = state
    ]_vars

C10_Witness ==
    \E t \in Tasks :
        /\ task[t].pc = "respond"
        /\ task[t].req.op = "verify"
        /\ IsChallengeNotFound(task[t].resp)
        /\ state = NewState

\* The responses an honest prover computes for challenge id of state st:
\* solve_challenge(x, k, c) for the secret x behind the owner's (y1, y2) and
\* the nonce k behind the challenge's (r1, r2).
CorrectResponses(st, id) ==
    LET ch == st.challenges[id]
        owner == st.users[ch.user_id]
    IN  {solve_challenge(x, k, ch.c) : x \in
            {x \in Scalars : owner.y1 = commit(x).r1 /\ owner.y2 = commit(x).r2},
         k \in {k \in Scalars : ch.r1 = commit(k).r1 /\ ch.r2 = commit(k).r2}}

\* The read-locked check of task t ends in VerificationFailed or in
\* ChallengeNotFound.
FailedCheck(t) ==
    /\ CheckStep(t)
    /\ \/ IsVerificationFailed(task'[t].resp)
       \/ IsChallengeNotFound(task'[t].resp)

\* C11: a VerifyAnswer that ends in VerificationFailed or ChallengeNotFound
\* changes nothing.  The user, challenge and session registries are the same
\* after the call as before it; after a VerificationFailed the challenge is
\* still in the registry with its owner registered, and the correct response
\* to the same challenge id passes the read-locked check.
C11_FailedVerifyChangesNothing ==
    [][\A t \in Tasks :
        FailedCheck(t) =>
            /\ task'[t].pc = "respond"
            /\ state' = state
            /\ IsVerificationFailed(task'[t].resp) =>
                 LET id == task[t].req.auth_id
                 IN  /\ id \in DOMAIN state'.challenges
                     /\ state'.challenges[id].user_id \in DOMAIN state'.users
                     /\ \A s \in CorrectResponses(state', id) :
                          verify_read(state', id, s).result = Ok
    ]_vars

\* A wrong response to challenge id has been turned down, and a second call
\* holding the read guard is about to have the correct response to the same
\* id checked against the unchanged registries.
C11_Witness ==
    \E t1 \in Tasks, t2 \in Tasks :
        /\ task[t1].pc = "respond"
        /\ IsVerificationFailed(task[t1].resp)
        /\ task[t2].pc = "verify_read"
        /\ task[t2].req.auth_id = task[t1].req.auth_id
        /\ task[t2].req.auth_id \in DOMAIN state.challenges
        /\ state.challenges[task[t2].req.auth_id].user_id \in DOMAIN state.users
        /\ task[t2].loc.s_bigint \in CorrectResponses(state, task[t2].req.auth_id)
        /\ verify_read(state, task[t2].req.auth_id, task[t2].loc.s_bigint).result = Ok

\* The engine's check on what the registries hold for the request of task t:
\* the challenge exists, its owner is registered, and verify returns Ok on
\* the owner's (y1, y2), the challenge's (r1, r2, c) and the decoded s.
ProofVerified(st, t) ==
    LET id == task[t].req.auth_id
    IN  /\ id \in DOMAIN st.challenges
        /\ st.challenges[id].user_id \in DOMAIN st.users
        /\ LET ch == st.challenges[id]
               owner == st.users[ch.user_id]
           IN  verify(owner.y1, owner.y2, ch.r1, ch.r2,
                      from_bytes_be(task[t].req.s), ch.c) = "Ok"

\* C12: sessions exist only after a verified proof.  The session registry
\* changes only in the write-locked step of a VerifyAnswer call, by the one
\* entry {session_id, user_name} of that call; a call reaches that step only
\* from the wait for the write lock, with its request and locals untouched;
\* and a call enters that wait only from a read-locked check in which verify
\* returned Ok on a challenge whose owner is the user_name it carries.
C12_SessionsOnlyAfterVerifiedProof ==
    [][/\ state'.sessions # state.sessions =>
            \E t \in Tasks :
                /\ CommitStep(t)
                /\ task[t].req.op = "verify"
                /\ state'.sessions =
                      Insert(state.sessions, task[t].loc.session_id,
                             [id |-> task[t].loc.session_id,
                              user_id |-> task[t].loc.user_name])
       /\ \A t \in Tasks :
            /\ (task'[t].pc = "session_write" /\ task[t].pc # "session_write")
                  => task[t].pc = "session_wait"
            /\ (task[t].pc \in {"session_wait", "session_write"}
                    /\ task'[t].pc \in {"session_wait", "session_write"})
                  => (task'[t].req = task[t].req /\ task'[t].loc = task[t].loc)
            /\ (task'[t].pc = "session_wait" /\ task[t].pc # "session_wait")
                  => /\ CheckStep(t)
                     /\ ProofVerified(state, t)
                     /\ task'[t].req = task[t].req
                     /\ task'[t].loc.user_name
                           = state.challenges[task[t].req.auth_id].user_id
    ]_vars

\* A VerifyAnswer call has returned a session id, and the registry holds that
\* session for the owner of the challenge the call proved.
C12_Witness ==
    \E t \in Tasks :
        /\ task[t].pc = "respond"
        /\ task[t].resp.kind = "AuthenticationAnswerResponse"
        /\ ProofVerified(state, t)
        /\ task[t].resp.session_id \in DOMAIN state.sessions
        /\ state.sessions[task[t].resp.session_id].user_id
              = state.challenges[task[t].req.auth_id].user_id

\* The write-locked step of a Register call.
RegisterStep(t) == task[t].pc = "register_write" /\ task'[t].pc = "respond"

\* C13: Register(name, y1, y2) always succeeds and sets users[name] to
\* {id: name, y1, y2, auth_id: absent, session_id: absent}, whether or not
\* name was registered before; every other user's record, the challenge
\* registry and the session registry are left as they were.
C13_RegisterOverwrites ==
    [][\A t \in Tasks :
        RegisterStep(t) =>
            LET name == task[t].req.user
            IN  /\ task'[t].resp = [kind |-> "RegisterResponse"]
                /\ DOMAIN state'.users = DOMAIN state.users \cup {name}
                /\ state'.users[name] =
                      [id |-> name,
                       y1 |-> from_bytes_be(task[t].req.y1),
                       y2 |-> from_bytes_be(task[t].req.y2),
                       auth_id |-> None, session_id |-> None]
                /\ \A u \in DOMAIN state.users \ {name} :
                      state'.users[u] = state.users[u]
                /\ state'.challenges = state.challenges
                /\ state'.sessions = state.sessions
    ]_vars

\* A Register call has answered for a name that was registered before: the
\* name owns a challenge and a session, which only a registered user gets,
\* and its record names neither.
C13_Witness ==
    \E t \in Tasks :
        LET name == task[t].req.user
        IN  /\ task[t].pc = "respond"
            /\ task[t].resp.kind = "RegisterResponse"
            /\ state.users[name] =
                  [id |-> name,
                   y1 |-> from_bytes_be(task[t].req.y1),
                   y2 |-> from_bytes_be(task[t].req.y2),
                   auth_id |-> None, session_id |-> None]
            /\ Owned(state, name) # {}
            /\ \E sid \in DOMAIN state.sessions : state.sessions[sid].user_id = name

\* C14: a successful IssueChallenge(u, r1, r2) returning (id, c) leaves, at
\* the end of its write-locked step, challenges[id] = {id, user_id: u, r1, r2,
\* c} with the caller's r1 and r2 and the c of the response, users[u].auth_id
\* = id, users[u].y1, y2 and session_id as they were, and the session
\* registry as it was.
C14_IssueChallengeRecords ==
    [][\A t \in Tasks :
        (ChallengeStep(t) /\ task'[t].resp.kind = "AuthenticationChallengeResponse")
            => LET u == task[t].req.user
                   id == task'[t].resp.auth_id
               IN  /\ u \in DOMAIN state.users
                   /\ id \in DOMAIN state'.challenges
                   /\ state'.challenges[id] =
                         [id |-> id, user_id |-> u,
                          r1 |-> from_bytes_be(task[t].req.r1),
                          r2 |-> from_bytes_be(task[t].req.r2),
                          c |-> from_bytes_be(task'[t].resp.c)]
                   /\ state'.users[u] =
                         [state.users[u] EXCEPT !.auth_id = Some(id)]
                   /\ state'.sessions = state.sessions
    ]_vars

\* An IssueChallenge has answered for a user who holds a session: the
\* registry holds the challenge as sent and answered, the record names it
\* and still names the session.
C14_Witness ==
    \E t \in Tasks :
        LET u == task[t].req.user
        IN  /\ task[t].pc = "respond"
            /\ task[t].resp.kind = "AuthenticationChallengeResponse"
            /\ task[t].resp.auth_id \in DOMAIN state.challenges
            /\ state.challenges[task[t].resp.auth_id] =
                  [id |-> task[t].resp.auth_id, user_id |-> u,
                   r1 |-> from_bytes_be(task[t].req.r1),
                   r2 |-> from_bytes_be(task[t].req.r2),
                   c |-> from_bytes_be(task[t].resp.c)]
            /\ state.users[u].auth_id = Some(task[t].resp.auth_id)
            /\ state.users[u].session_id # None
            /\ state.users[u].session_id[1] \in DOMAIN state.sessions

\* C15: error kinds are distinguishable at the service boundary.  The status
\* code of a VerificationFailed response differs from the status code of
\* every UserNotFound and every ChallengeNotFound response, whichever of
\* Register, IssueChallenge and VerifyAnswer returned it.
C15_FailureCodesDistinct ==
    \A t1 \in Tasks, t2 \in Tasks :
        (/\ task[t1].pc = "respond"
         /\ task[t2].pc = "respond"
         /\ IsVerificationFailed(task[t1].resp)
         /\ IsUserNotFound(task[t2].resp) \/ IsChallengeNotFound(task[t2].resp))
            => task[t1].resp.code # task[t2].resp.code

\* C19: sessions are permanent.  Every session id in the session registry is
\* in the registry of the next state, mapped to the same user, whichever
\* step of Register, IssueChallenge or VerifyAnswer is taken.
C19_SessionsPermanent ==
    [][\A sid \in DOMAIN state.sessions :
        /\ sid \in DOMAIN state'.sessions
        /\ state'.sessions[sid] = state.sessions[sid]
    ]_vars

\* A user's session is in the registry although the user has registered
\* again since (the record names no session), and a later session sits next
\* to it.
C19_Witness ==
    \E sid \in DOMAIN state.sessions, later \in DOMAIN state.sessions :
        LET u == state.sessions[sid].user_id
        IN  /\ state.sessions[sid] = [id |-> sid, user_id |-> u]
            /\ u \in DOMAIN state.users
            /\ state.users[u].session_id = None
            /\ later > sid

(***************************************************************************)
(* Properties of solve_challenge (checked under SpecEngine)                *)
(***************************************************************************)
\* C16: solve_challenge(x, k, c) returns the one s with 0 <= s < q that is
\* congruent to k - c*x modulo q, for all x, k in 0..MaxScalar and every c
\* generate_random can return, whether k - c*x is negative, zero or a
\* negative multiple of q.
C16_SolveChallengeInRange ==
    round.stage \in {"solved", "verified"} =>
        /\ round.s \in 0 .. (q - 1)
        /\ \E n \in -(MaxScalar * Pow2(bit_size)) .. MaxScalar :
              round.k - (round.c * round.x) = round.s + (n * q)

\* k - c*x is a negative multiple of q and the response solved is 0.
C16_Witness ==
    /\ round.stage = "solved"
    /\ round.k - (round.c * round.x) < 0
    /\ \E n \in 1 .. MaxScalar * Pow2(bit_size) :
          round.k - (round.c * round.x) = -(n * q)
    /\ round.s = 0

(***************************************************************************)
(* Properties of the wire encoding (checked under SpecWire)                *)
(***************************************************************************)
\* C17: byte round-trip.  For every integer v of at most WireBitSize bits,
\* zero, one-byte and two-byte values alike, decoding the big-endian bytes
\* that encode v gives v: what the peer holds of y1, y2, r1, r2, c or s is
\* the value that was encoded.
C17_ByteRoundTrip ==
    wire.stage = "received" =>
        /\ wire.decoded = wire.v
        /\ \A i \in 1 .. Len(wire.bytes) : wire.bytes[i] \in 0 .. 255

\* A value of two bytes that reads differently from either end has made the
\* trip.
C17_Witness ==
    /\ wire.stage = "received"
    /\ wire.field \in ClientFields
    /\ Len(wire.bytes) = 2
    /\ wire.bytes[1] # wire.bytes[2]
    /\ wire.v = (256 * wire.bytes[1]) + wire.bytes[2]
    /\ wire.decoded = wire.v

\* C18: the challenge scalar c of IssueChallenge is a non-negative integer
\* below 2^bit_size, and its big-endian encoding in the response is exactly
\* bit_size/8 bytes long for every value generate_random can produce.
C18_ChallengeEncodingFullWidth ==
    (wire.stage \in {"sent", "received"} /\ wire.field = "c") =>
        /\ wire.v >= 0
        /\ wire.v < Pow2(WireBitSize)
        /\ Len(wire.bytes) = WireBitSize \div 8

(***************************************************************************)
(* Properties of the server, continued (checked under Spec)                *)
(***************************************************************************)
\* C21: the secret never leaves the prover.  A Register request has the
\* fields user, y1, y2, a CreateChallenge request user, r1, r2 and a
\* VerifyAnswer request auth_id, s (op is the method called): none has a
\* field for the secret x or the ephemeral k.  A user record holds id, y1,
\* y2, auth_id, session_id, a challenge id, user_id, r1, r2, c and a session
\* id, user_id: no record of the registries has a field for x or k.
C21_SecretNeverLeaves ==
    /\ \A t \in Tasks :
         /\ task[t].req.op = "register"
               => DOMAIN task[t].req = {"op", "user", "y1", "y2"}
         /\ task[t].req.op = "challenge"
               => DOMAIN task[t].req = {"op", "user", "r1", "r2"}
         /\ task[t].req.op = "verify"
               => DOMAIN task[t].req = {"op", "auth_id", "s"}
    /\ \A u \in DOMAIN state.users :
         DOMAIN state.users[u] = {"id", "y1", "y2", "auth_id", "session_id"}
    /\ \A id \in DOMAIN state.challenges :
         DOMAIN state.challenges[id] = {"id", "user_id", "r1", "r2", "c"}
    /\ \A sid \in DOMAIN state.sessions :
         DOMAIN state.sessions[sid] = {"id", "user_id"}

\* Every kind of record is stored and requests of two kinds are in flight.
C21_Witness ==
    /\ DOMAIN state.users # {}
    /\ DOMAIN state.challenges # {}
    /\ DOMAIN state.sessions # {}
    /\ \E t1 \in Tasks, t2 \in Tasks :
         /\ task[t1].req.op = "register"
         /\ task[t2].req.op = "verify"

\* Task t1 has answered with a session for a challenge id while task t2,
\* whose check of the same id passed earlier (its session id was drawn
\* first), is at its write-locked step: both checks passed before either
\* call committed.
Raced(t1, t2) ==
    /\ t1 # t2
    /\ task[t1].pc = "respond"
    /\ task[t1].resp.kind = "AuthenticationAnswerResponse"
    /\ task[t2].pc = "session_write"
    /\ task[t2].req.auth_id = task[t1].req.auth_id
    /\ task[t2].loc.session_id < task[t1].resp.session_id

\* C22: the duplicate-session race.  When two VerifyAnswer calls for the
\* same challenge id have both passed the read-locked check before either
\* committed, the second commit succeeds as the first did: the session
\* registry then holds two distinct session ids for the same user, and
\* users[u].session_id names the one committed last.
C22_RacingVerifiesBothCommit ==
    [][\A t1 \in Tasks, t2 \in Tasks :
        (Raced(t1, t2) /\ CommitStep(t2)) =>
            LET sid1 == task[t1].resp.session_id
                sid2 == task[t2].loc.session_id
                u == task[t2].loc.user_name
            IN  /\ task'[t2].resp =
                      [kind |-> "AuthenticationAnswerResponse", session_id |-> sid2]
                /\ sid1 # sid2
                /\ {sid1, sid2} \subseteq DOMAIN state'.sessions
                /\ state'.sessions[sid1] = [id |-> sid1, user_id |-> u]
                /\ state'.sessions[sid2] = [id |-> sid2, user_id |-> u]
                /\ state'.users[u].session_id = Some(sid2)
    ]_vars

\* Both calls have answered with a session for the same challenge id, both
\* sessions are in the registry for the same user, and the record names the
\* one whose id was drawn first: it passed its check first and committed
\* last.
C22_Witness ==
    \E t1 \in Tasks, t2 \in Tasks :
        /\ t1 # t2
        /\ task[t1].pc = "respond"
        /\ task[t2].pc = "respond"
        /\ task[t1].resp.kind = "AuthenticationAnswerResponse"
        /\ task[t2].resp.kind = "AuthenticationAnswerResponse"
        /\ task[t1].req.auth_id = task[t2].req.auth_id
        /\ task[t2].resp.session_id < task[t1].resp.session_id
        /\ {task[t1].resp.session_id, task[t2].resp.session_id}
              \subseteq DOMAIN state.sessions
        /\ state.sessions[task[t1].resp.session_id].user_id
              = state.sessions[task[t2].resp.session_id].user_id
        /\ state.users[state.sessions[task[t2].resp.session_id].user_id].session_id
              = Some(task[t2].resp.session_id)

\* The read-locked block of task t gets as far as the engine's verify: both
\* lookups succeed.
VerifyRuns(t) ==
    /\ task[t].pc = "verify_read"
    /\ task[t].req.auth_id \in DOMAIN state.challenges
    /\ state.challenges[task[t].req.auth_id].user_id \in DOMAIN state.users

HoldsNoLock(t) == t \notin lock.readers /\ lock.writer # t

\* C23: lock discipline.  VerifyAnswer reads the challenge and the user
\* under the read lock, runs the engine's verify holding no lock at all, and
\* writes the session under a write lock taken afterwards; IssueChallenge
\* draws c and the challenge id before it takes the write lock.
C23_LockDiscipline ==
    [][\A t \in Tasks :
        /\ CheckStep(t) => (t \in lock.readers /\ lock.writer = 0)
        /\ (CheckStep(t) /\ VerifyRuns(t)) => HoldsNoLock(t)
        /\ CommitStep(t) => (lock.writer = t /\ lock.readers = {})
        /\ (task[t].pc = "session_wait" /\ task'[t].pc = "session_wait")
              => HoldsNoLock(t)
        /\ (task[t].pc = "idle" /\ task'[t].pc = "challenge_wait")
              => (HoldsNoLock(t) /\ task'[t].loc.auth_id = next_uuid
                    /\ task'[t].loc.c \in ServerChallenges)
        /\ ChallengeStep(t) => lock.writer = t
    ]_vars

\* C24: a superseded challenge never yields a session.  Whenever a
\* VerifyAnswer call commits a session for user u on challenge id ch, ch is
\* in the challenge registry and is users[u].auth_id at the commit.
C24_CommitOnLiveChallenge ==
    [][\A t \in Tasks :
        (CommitStep(t) /\ task'[t].resp.kind = "AuthenticationAnswerResponse")
            => /\ task[t].req.auth_id \in DOMAIN state.challenges
               /\ state.users[task[t].loc.user_name].auth_id
                     = Some(task[t].req.auth_id)
    ]_vars

\* C25: a session is bound to the identity that was proven.  Whenever a
\* VerifyAnswer call inserts a session for user u, the proof it carries
\* verifies against the (y1, y2) that users[u] holds at the insert.
C25_SessionBoundToProvenIdentity ==
    [][\A t \in Tasks :
        (/\ CommitStep(t)
         /\ task'[t].resp.kind = "AuthenticationAnswerResponse"
         /\ task[t].req.auth_id \in DOMAIN state.challenges)
            => LET ch == state.challenges[task[t].req.auth_id]
                   owner == state.users[task[t].loc.user_name]
               IN  verify(owner.y1, owner.y2, ch.r1, ch.r2,
                          from_bytes_be(task[t].req.s), ch.c) = "Ok"
    ]_vars

\* C26: referential integrity of auth_id.  In every reachable state (also
\* those a reader holding the read lock looks at), whenever
\* users[u].auth_id = id the challenge registry has an entry keyed id whose
\* user_id is u.
C26_AuthIdNamesOwnChallenge ==
    \A u \in DOMAIN state.users :
        state.users[u].auth_id # None =>
            /\ state.users[u].auth_id[1] \in DOMAIN state.challenges
            /\ state.challenges[state.users[u].auth_id[1]].user_id = u

\* A reader holds the read lock on a state in which a user's record names
\* the challenge that superseded an earlier one.
C26_Witness ==
    \E t \in Tasks, u \in DOMAIN state.users :
        /\ task[t].pc = "verify_read"
        /\ t \in lock.readers
        /\ state.users[u].auth_id # None
        /\ state.users[u].auth_id[1] > 1
        /\ task[t].req.auth_id = state.users[u].auth_id[1]
        /\ Owned(state, u) = {state.users[u].auth_id[1]}

\* C27: owners always exist.  No step removes a registered user, the
\* user_id of every challenge and of every session is a key of the user
\* registry, and no VerifyAnswer call answers UserNotFound, from the
\* read-side user lookup or from create_session.
C27_OwnersAlwaysExist ==
    [][/\ DOMAIN state.users \subseteq DOMAIN state'.users
       /\ \A id \in DOMAIN state'.challenges :
            state'.challenges[id].user_id \in DOMAIN state'.users
       /\ \A sid \in DOMAIN state'.sessions :
            state'.sessions[sid].user_id \in DOMAIN state'.users
       /\ \A t \in Tasks :
            (task'[t].pc = "respond" /\ task'[t].req.op = "verify")
                => ~IsUserNotFound(task'[t].resp)
    ]_vars

\* A VerifyAnswer call is past the read-side user lookup and at
\* create_session with its user registered, next to challenges and sessions
\* of registered owners.
C27_Witness ==
    \E t \in Tasks :
        /\ task[t].pc = "session_write"
        /\ task[t].loc.user_name \in DOMAIN state.users
        /\ DOMAIN state.challenges # {}
        /\ DOMAIN state.sessions # {}
        /\ Cardinality(DOMAIN state.users) = 2

\* C28: no orphaned challenges.  In every reachable state a user whose
\* auth_id is absent owns no entry of the challenge registry.
C28_NoOrphanedChallenges ==
    \A u \in DOMAIN state.users :
        state.users[u].auth_id = None => Owned(state, u) = {}

\* The session ids whose entry in a state's session registry names user u.
SessionsOf(st, u) == {sid \in DOMAIN st.sessions : st.sessions[sid].user_id = u}

\* C29 as claimed: session_id tracks the latest session.  After every step,
\* every user who owns a session has a session_id, it names a session of
\* that user, it is the session the step inserted for the user if it
\* inserted one, and it is what it was before if it did not.
C29_SessionIdNamesLatest ==
    [][\A u \in DOMAIN state'.users :
        SessionsOf(state', u) # {} =>
            LET new == SessionsOf(state', u) \ SessionsOf(state, u)
            IN  /\ state'.users[u].session_id # None
                /\ state'.users[u].session_id[1] \in SessionsOf(state', u)
                /\ new # {} => new = {state'.users[u].session_id[1]}
                /\ (new = {} /\ u \in DOMAIN state.users)
                      => state'.users[u].session_id = state.users[u].session_id
    ]_vars

\* C29 amended: session_id tracks the latest session since the user last
\* registered.  A step that inserts a session for u inserts one and sets
\* session_id to it; a Register step for u sets session_id to absent and
\* leaves u's sessions in the registry; any other step leaves session_id as
\* it was; and a session_id that is present names a session of that user.
C29_SessionIdNamesLatestSinceRegister ==
    [][\A u \in DOMAIN state'.users :
        LET new == SessionsOf(state', u) \ SessionsOf(state, u)
        IN  /\ SessionsOf(state, u) \subseteq SessionsOf(state', u)
            /\ new # {} => \E sid \in new :
                                /\ new = {sid}
                                /\ state'.users[u].session_id = Some(sid)
            /\ new = {} =>
                 \/ /\ u \in DOMAIN state.users
                    /\ state'.users[u].session_id = state.users[u].session_id
                 \/ /\ \E t \in Tasks : RegisterStep(t) /\ task[t].req.user = u
                    /\ state'.users[u].session_id = None
            /\ state'.users[u].session_id # None
                  => state'.users[u].session_id[1] \in SessionsOf(state', u)
    ]_vars

\* A user who registered again after being challenged holds two sessions,
\* and the record names the later one.
C29_Witness ==
    \E u \in DOMAIN state.users :
        /\ Cardinality(SessionsOf(state, u)) = 2
        /\ state.users[u].session_id # None
        /\ state.users[u].session_id[1] \in SessionsOf(state, u)
        /\ \A sid \in SessionsOf(state, u) : sid <= state.users[u].session_id[1]
        /\ state.users[u].auth_id = None

\* The write-locked steps, the only ones that change the registries, and the
\* user each acts on.
WriteStep(t) == RegisterStep(t) \/ ChallengeStep(t) \/ CommitStep(t)

ActsOn(t) ==
    IF task[t].pc = "session_write" THEN task[t].loc.user_name ELSE task[t].req.user

\* C30: per-user independence.  The registries change only in the
\* write-locked step of a Register, IssueChallenge or VerifyAnswer call, and
\* such a step acting on user A leaves every other user B as it was: B's
\* record (or B's absence), and every challenge and session entry owned by B.
C30_PerUserIndependence ==
    [][/\ state' # state => \E t \in Tasks : WriteStep(t)
       /\ \A t \in Tasks :
            WriteStep(t) =>
                \A B \in UserNames \ {ActsOn(t)} :
                    /\ (B \in DOMAIN state'.users) = (B \in DOMAIN state.users)
                    /\ B \in DOMAIN state.users => state'.users[B] = state.users[B]
                    /\ Owned(state', B) = Owned(state, B)
                    /\ \A id \in Owned(state, B) :
                          state'.challenges[id] = state.challenges[id]
                    /\ SessionsOf(state', B) = SessionsOf(state, B)
                    /\ \A sid \in SessionsOf(state, B) :
                          state'.sessions[sid] = state.sessions[sid]
    ]_vars

\* An IssueChallenge for one user has answered while the other user holds a
\* challenge and a session, both in the registries.
C30_Witness ==
    \E t \in Tasks, B \in DOMAIN state.users :
        /\ task[t].pc = "respond"
        /\ task[t].resp.kind = "AuthenticationChallengeResponse"
        /\ task[t].req.user # B
        /\ task[t].resp.auth_id \in Owned(state, task[t].req.user)
        /\ state.users[B].auth_id # None
        /\ state.users[B].auth_id[1] \in Owned(state, B)
        /\ state.users[B].session_id # None
        /\ state.users[B].session_id[1] \in SessionsOf(state, B)

(***************************************************************************)
(* Properties of the state operations (checked under SpecState)            *)
(***************************************************************************)
\* A step that is a call of create_session.
CreateSessionStep == next_uuid' # next_uuid /\ call'.op = "create_session"

\* C32: create_session(name, session_id) for a name that is not registered
\* fails with UserNotFound and leaves the user, challenge and session
\* registries unchanged; for a registered name it succeeds, inserts
\* sessions[session_id] = {session_id, name}, sets users[name].session_id,
\* and leaves the challenge registry, users[name].auth_id and everything
\* else unchanged.
C32_CreateSessionContract ==
    [][CreateSessionStep =>
        LET name == call'.user_name
            session_id == call'.id
        IN  IF name \notin DOMAIN state.users
            THEN /\ IsUserNotFound(call'.result)
                 /\ state' = state
            ELSE /\ call'.result = Ok
                 /\ state'.sessions =
                       Insert(state.sessions, session_id,
                              [id |-> session_id, user_id |-> name])
                 /\ state'.users =
                       [state.users EXCEPT ![name].session_id = Some(session_id)]
                 /\ state'.users[name].auth_id = state.users[name].auth_id
                 /\ state'.challenges = state.challenges
    ]_vars

\* create_session has failed for a name that is not registered, called on
\* registries that hold another user with a challenge and a session.
C32_Witness ==
    /\ call.op = "create_session"
    /\ IsUserNotFound(call.result)
    /\ call.user_name \notin DOMAIN state.users
    /\ call.id \notin DOMAIN state.sessions
    /\ DOMAIN state.users # {}
    /\ DOMAIN state.challenges # {}
    /\ DOMAIN state.sessions # {}

(***************************************************************************)
(* Properties of the lock (checked under SpecFair)                         *)
(***************************************************************************)
\* Task t is inside a handler that has not produced its response yet.
Busy(t) == task[t].pc \notin {"idle", "respond"}

\* What each position of a handler holds of the lock: nothing before a
\* handler, after its response and while it waits for the lock (the read
\* guard of VerifyAnswer is gone when it waits for the write lock), the read
\* guard in the read-locked block, the write guard in a write-locked step.
LockHeldAsCoded ==
    \A t \in Tasks :
        /\ task[t].pc \in {"idle", "respond", "register_wait", "challenge_wait",
                           "verify_wait", "session_wait"}
              => HoldsNoLock(t)
        /\ task[t].pc = "verify_read"
              => (t \in lock.readers /\ lock.writer = 0)
        /\ task[t].pc \in {"register_write", "challenge_write", "session_write"}
              => (lock.writer = t /\ lock.readers = {})

\* C31: no deadlock and no leaked lock.  Under fair scheduling of the lock,
\* every Register, IssueChallenge and VerifyAnswer call produces its
\* response; a call holds no lock while it waits for one, VerifyAnswer has
\* released its read guard when it asks for the write lock or returns an
\* error, and a call that has returned holds no lock.
C31_CallsReturnAndLeakNoLock ==
    /\ []LockHeldAsCoded
    /\ \A t \in Tasks : Busy(t) ~> (task[t].pc = "respond")

\* One call waits for the write lock while the other holds the read guard
\* in VerifyAnswer.
C31_Witness ==
    \E t1 \in Tasks, t2 \in Tasks :
        /\ task[t1].pc \in {"register_wait", "challenge_wait", "session_wait"}
        /\ task[t2].pc = "verify_read"
        /\ t2 \in lock.readers
        /\ HoldsNoLock(t1)

=============================================================================
